---- MODULE Spec2Model ----
(***************************************************************************)
(* Moving-average crossover strategy of app/trading_strategy.py:           *)
(* calculate_moving_averages, generate_signals and calculate_performance   *)
(* of MovingAverageCrossoverStrategy.                                      *)
(*                                                                         *)
(* Prices are Python floats in the source.  They are modelled as exact     *)
(* rationals [def, num, den] (den > 0, lowest terms); NaN / None is the    *)
(* value with def = FALSE.  Floating-point rounding is not modelled.       *)
(* Sequences are 1-based here: index i of the model is index i-1 of the    *)
(* source.                                                                 *)
(***************************************************************************)
EXTENDS Integers, Sequences, FiniteSets, TLC

VARIABLES
    short_window,      \* self.short_window
    long_window,       \* self.long_window
    pc,                \* "idle", or "loop" inside calculate_performance's for loop
    call,              \* the method called last ("none" before any call)
    prices,            \* argument of calculate_moving_averages
    ma_result,         \* its outcome: [err, short, long]
    ticker_data,       \* argument of generate_signals
    gen_result,        \* its outcome: [err, signals]
    signals,           \* argument of calculate_performance
    idx,               \* number of signals the for loop has consumed
    position,          \* locals of calculate_performance
    buy_price,
    total_returns,
    trades,
    winning_trades,
    portfolio_values,
    summary,           \* the StrategyPerformance returned: [done, ...]
    db,                \* rows of the ticker_data table, in insertion order
    response,          \* the answer to the last HTTP request
    invs               \* the strategy invocations in progress, one record each

vars == <<short_window, long_window, pc, call, prices, ma_result, ticker_data,
          gen_result, signals, idx, position, buy_price, total_returns, trades,
          winning_trades, portfolio_values, summary, db, response, invs>>

\* the state of one strategy object and of a call made on it
core_vars == <<short_window, long_window, pc, call, prices, ma_result, ticker_data,
               gen_result, signals, idx, position, buy_price, total_returns, trades,
               winning_trades, portfolio_values, summary>>

\* the table and the last response of the request layer
api_vars == <<db, response>>

perf_locals == <<position, buy_price, total_returns, trades, winning_trades,
                 portfolio_values>>

-----------------------------------------------------------------------------
(* Bounds of the model *)

MaxLen == 6          \* longest price series passed to the moving averages
MaxWindow == 4       \* largest window a strategy is constructed with
MaxSignals == 4      \* longest signal list passed directly to calculate_performance

(* Program constants *)

DefaultShortWindow == 5
DefaultLongWindow == 20
InitialPortfolio == 10000

PriceSet == {90, 100, 110}
WindowRange == -1..MaxWindow
Tags == {"BUY", "SELL", "HOLD"}

SeqsUpTo(S, n) == UNION {[1..k -> S] : k \in 0..n}

-----------------------------------------------------------------------------
(* Float values as exact rationals; NaN as the undefined value *)

Abs(n) == IF n < 0 THEN 0 - n ELSE n

RECURSIVE GCD(_, _)
GCD(a, b) == IF b = 0 THEN a ELSE GCD(b, a % b)

NaN == [def |-> FALSE, num |-> 0, den |-> 1]

\* n / d for d > 0, in lowest terms
Rat(n, d) ==
    LET g == GCD(Abs(n), d)
    IN  [def |-> TRUE, num |-> n \div g, den |-> d \div g]

RInt(n) == Rat(n, 1)

RAdd(a, b) ==
    LET g == GCD(a.den, b.den)
    IN  Rat(a.num * (b.den \div g) + b.num * (a.den \div g), (a.den \div g) * b.den)

RNeg(a) == [def |-> TRUE, num |-> 0 - a.num, den |-> a.den]

RSub(a, b) == RAdd(a, RNeg(b))

RMul(a, b) ==
    LET g1 == GCD(Abs(a.num), b.den)
        g2 == GCD(Abs(b.num), a.den)
    IN  Rat((a.num \div g1) * (b.num \div g2), (a.den \div g2) * (b.den \div g1))

\* a / b for b > 0
RDiv(a, b) == RMul(a, [def |-> TRUE, num |-> b.den, den |-> b.num])

\* Python comparisons: any comparison with NaN is False
RLt(a, b) == a.def /\ b.def /\ a.num * b.den < b.num * a.den
RLe(a, b) == a.def /\ b.def /\ a.num * b.den <= b.num * a.den
RGt(a, b) == RLt(b, a)
RGe(a, b) == RLe(b, a)

IsNa(a) == ~a.def

-----------------------------------------------------------------------------
(* calculate_moving_averages *)

\* Running window sum of pandas' rolling aggregation after element i: each
\* element is added as it enters the window and the element that leaves the
\* window is subtracted.
RECURSIVE RollSum(_, _, _)
RollSum(ps, w, i) ==
    IF i = 0 THEN 0
    ELSE RollSum(ps, w, i - 1) + ps[i] - (IF i > w THEN ps[i - w] ELSE 0)

RollingMean_MinPeriods1(ps, w) ==
    [i \in 1..Len(ps) |->
        IF w >= 1 THEN Rat(RollSum(ps, w, i), IF i < w THEN i ELSE w) ELSE NaN]

\* Series.rolling(window=w).mean(): min_periods defaults to the window, so an
\* entry is NaN until w observations are in the window.  Window 0 is accepted
\* by pandas and gives an all-NaN series.
RollingMean(ps, w) ==
    [i \in 1..Len(ps) |->
        IF w >= 1 /\ i >= w THEN Rat(RollSum(ps, w, i), w) ELSE NaN]

MaError == [err |-> TRUE, short |-> <<>>, long |-> <<>>]

\* rolling() raises ValueError for a negative window; nothing in the method
\* checks the windows before.
CalculateMovingAverages(sw, lw, ps) ==
    IF sw < 0 \/ lw < 0 THEN MaError
    ELSE [err |-> FALSE, short |-> RollingMean(ps, sw), long |-> RollingMean(ps, lw)]

-----------------------------------------------------------------------------
(* generate_signals *)

Closes(td) == [i \in 1..Len(td) |-> td[i].close]
Dates(td) == [i \in 1..Len(td) |-> td[i].datetime]

SignalType_NoPrevCheck(i, short_ma, long_ma) ==
    IF i > 1 /\ ~IsNa(short_ma[i]) /\ ~IsNa(long_ma[i])
    THEN IF RGt(short_ma[i], long_ma[i]) THEN "BUY"
         ELSE IF RLt(short_ma[i], long_ma[i]) THEN "SELL"
         ELSE "HOLD"
    ELSE "HOLD"

SignalType_StrictPrev(i, short_ma, long_ma) ==
    IF i > 1 /\ ~IsNa(short_ma[i]) /\ ~IsNa(long_ma[i])
    THEN IF RGt(short_ma[i], long_ma[i]) /\ RLt(short_ma[i - 1], long_ma[i - 1])
         THEN "BUY"
         ELSE IF RLt(short_ma[i], long_ma[i]) /\ RGt(short_ma[i - 1], long_ma[i - 1])
         THEN "SELL"
         ELSE "HOLD"
    ELSE "HOLD"

\* The tag of point i (the body of the for loop up to the append)
SignalType(i, short_ma, long_ma) ==
    IF i > 1 /\ ~IsNa(short_ma[i]) /\ ~IsNa(long_ma[i])
    THEN IF RGt(short_ma[i], long_ma[i]) /\ RLe(short_ma[i - 1], long_ma[i - 1])
         THEN "BUY"
         ELSE IF RLt(short_ma[i], long_ma[i]) /\ RGe(short_ma[i - 1], long_ma[i - 1])
         THEN "SELL"
         ELSE "HOLD"
    ELSE "HOLD"

MakeSignal(date, price, short, long, tag) ==
    [datetime |-> date, price |-> price, short_ma |-> short, long_ma |-> long,
     signal |-> tag]

GenError == [err |-> TRUE, signals |-> <<>>]
GenOk(sigs) == [err |-> FALSE, signals |-> sigs]

SignalsFrom(sw, lw, td) ==
    LET ps == Closes(td)
        ds == Dates(td)
        ma == CalculateMovingAverages(sw, lw, ps)
    IN  IF ma.err THEN GenError
        ELSE GenOk([i \in 1..Len(td) |->
                 MakeSignal(ds[i], RInt(ps[i]), ma.short[i], ma.long[i],
                            SignalType(i, ma.short, ma.long))])

GenerateSignals_NoPrecheck(sw, lw, td) == SignalsFrom(sw, lw, td)

GenerateSignals_SwappedAverages(sw, lw, td) ==
    IF Len(td) < lw THEN GenOk(<<>>) ELSE SignalsFrom(lw, sw, td)

GenerateSignals(sw, lw, td) ==
    IF Len(td) < lw THEN GenOk(<<>>) ELSE SignalsFrom(sw, lw, td)

-----------------------------------------------------------------------------
(* calculate_performance *)

RZero == RInt(0)
ROne == RInt(1)

RECURSIVE RSum(_)
RSum(rs) == IF rs = <<>> THEN RZero ELSE RAdd(rs[1], RSum(Tail(rs)))

Last(s) == s[Len(s)]

ZeroSharpe == [avg |-> RZero, var |-> ROne]

EmptySummary_FullWinRate ==
    [done |-> TRUE, total_returns |-> RZero, total_trades |-> 0,
     win_rate |-> RInt(100), max_drawdown |-> RZero, sharpe_ratio |-> ZeroSharpe,
     signals |-> <<>>]

\* The StrategyPerformance returned for an empty signal list
EmptySummary ==
    [done |-> TRUE, total_returns |-> RZero, total_trades |-> 0, win_rate |-> RZero,
     max_drawdown |-> RZero, sharpe_ratio |-> ZeroSharpe, signals |-> <<>>]

NoSummary == [EmptySummary EXCEPT !.done = FALSE]

\* The locals before the for loop
InitialLocals ==
    [position |-> 0, buy_price |-> RZero, total_returns |-> RZero, trades |-> 0,
     winning_trades |-> 0, portfolio_values |-> <<RInt(InitialPortfolio)>>]

BuyAccepted_NoFlatCheck(sig, pos) == sig.signal = "BUY"

BuyAccepted(sig, pos) == sig.signal = "BUY" /\ pos = 0

SellAccepted(sig, pos) == ~BuyAccepted(sig, pos) /\ sig.signal = "SELL" /\ pos = 1

ReturnPct_OverExit(exit, entry) == RDiv(RSub(exit, entry), exit)

ReturnPct(exit, entry) == RDiv(RSub(exit, entry), entry)

LoopBody_CountAtExit(st, sig) ==
    IF BuyAccepted(sig, st.position)
    THEN [st EXCEPT !.position = 1, !.buy_price = sig.price]
    ELSE IF SellAccepted(sig, st.position)
    THEN LET return_pct == ReturnPct(sig.price, st.buy_price)
         IN  [st EXCEPT
                !.total_returns = RAdd(@, return_pct),
                !.trades = @ + 1,
                !.winning_trades = IF RGt(return_pct, RZero) THEN @ + 1 ELSE @,
                !.position = 0,
                !.portfolio_values =
                    Append(@, RMul(Last(@), RAdd(ROne, return_pct)))]
    ELSE st

\* One iteration of the for loop over the signals
LoopBody(st, sig) ==
    IF BuyAccepted(sig, st.position)
    THEN [st EXCEPT !.position = 1, !.buy_price = sig.price, !.trades = @ + 1]
    ELSE IF SellAccepted(sig, st.position)
    THEN LET return_pct == ReturnPct(sig.price, st.buy_price)
         IN  [st EXCEPT
                !.total_returns = RAdd(@, return_pct),
                !.winning_trades = IF RGt(return_pct, RZero) THEN @ + 1 ELSE @,
                !.position = 0,
                !.portfolio_values =
                    Append(@, RMul(Last(@), RAdd(ROne, return_pct)))]
    ELSE st

WinRate_NoDivision(wins, n) == IF n > 0 THEN RInt(wins * 100) ELSE RZero

WinRate(wins, n) == IF n > 0 THEN RMul(Rat(wins, n), RInt(100)) ELSE RZero

\* The drawdown loop from value i on, with the peak and maximum so far
RECURSIVE DrawdownWalk(_, _, _, _)
DrawdownWalk(pv, i, peak, max_dd) ==
    IF i > Len(pv) THEN max_dd
    ELSE LET new_peak == IF RGt(pv[i], peak) THEN pv[i] ELSE peak
             drawdown == RDiv(RSub(new_peak, pv[i]), new_peak)
         IN  DrawdownWalk(pv, i + 1, new_peak,
                          IF RGt(drawdown, max_dd) THEN drawdown ELSE max_dd)

MaxDrawdown_FixedPeak(pv) ==
    LET D == {RDiv(RSub(pv[1], pv[i]), pv[1]) : i \in 1..Len(pv)} \cup {RZero}
    IN  CHOOSE d \in D : \A e \in D : RGe(d, e)

MaxDrawdown(pv) == DrawdownWalk(pv, 1, pv[1], RZero)

StepReturns(pv) ==
    [i \in 1..(Len(pv) - 1) |-> RDiv(RSub(pv[i + 1], pv[i]), pv[i])]

Mean(rs) == RDiv(RSum(rs), RInt(Len(rs)))

\* np.std squared: the population variance
Variance(rs) ==
    LET m == Mean(rs)
    IN  Mean([i \in 1..Len(rs) |-> RMul(RSub(rs[i], m), RSub(rs[i], m))])

\* avg_return / std_return, kept as the pair (avg, std^2); 0.0 is (0, 1)
SharpeRatio(pv) ==
    IF Len(pv) > 1
    THEN LET returns == StepReturns(pv)
         IN  IF RGt(Variance(returns), RZero)
             THEN [avg |-> Mean(returns), var |-> Variance(returns)]
             ELSE ZeroSharpe
    ELSE ZeroSharpe

\* The StrategyPerformance built after the loop
Summarise(st, sigs) ==
    [done |-> TRUE,
     total_returns |-> RMul(st.total_returns, RInt(100)),
     total_trades |-> st.trades,
     win_rate |-> WinRate(st.winning_trades, st.trades),
     max_drawdown |-> RMul(MaxDrawdown(st.portfolio_values), RInt(100)),
     sharpe_ratio |-> SharpeRatio(st.portfolio_values),
     signals |-> sigs]

\* The whole method as a function of its argument
RECURSIVE Fold(_, _)
Fold(st, sigs) == IF sigs = <<>> THEN st ELSE Fold(LoopBody(st, sigs[1]), Tail(sigs))

CalculatePerformance(sigs) ==
    IF sigs = <<>> THEN EmptySummary ELSE Summarise(Fold(InitialLocals, sigs), sigs)

-----------------------------------------------------------------------------
(* Request layer: validation of TickerDataCreate *)

\* pydantic validates the fields in the order of their definition
FieldOrder == <<"datetime", "open", "high", "low", "close", "volume">>

HighLowMsg == "High price cannot be less than low price"
HighOpenMsg == "High price cannot be less than open price"
HighCloseMsg == "High price cannot be less than close price"
LowOpenMsg == "Low price cannot be greater than open price"
LowCloseMsg == "Low price cannot be greater than close price"

\* validator('high'): values holds the fields validated before
HighMustBeHighest(v, values, r) ==
    IF "low" \in values /\ v < r.low THEN {HighLowMsg}
    ELSE IF "open" \in values /\ v < r.open THEN {HighOpenMsg}
    ELSE IF "close" \in values /\ v < r.close THEN {HighCloseMsg}
    ELSE {}

\* validator('low')
LowMustBeLowest(v, values, r) ==
    IF "open" \in values /\ v > r.open THEN {LowOpenMsg}
    ELSE IF "close" \in values /\ v > r.close THEN {LowCloseMsg}
    ELSE {}

\* Field(..., gt=0) for the prices, Field(..., ge=0) for the volume
ConstraintErrors(f, r) ==
    IF f = "volume" THEN (IF r.volume >= 0 THEN {} ELSE {"volume must be non-negative"})
    ELSE IF f = "datetime" THEN {}
    ELSE IF r[f] > 0 THEN {} ELSE {f \o " must be positive"}

\* the errors of the fields FieldOrder[1..n]; the validator of a field runs
\* only when its constraint passed, and sees in values the earlier fields that
\* were valid
RECURSIVE FieldErrors(_, _)
FieldErrors(r, n) ==
    IF n = 0 THEN [f \in {} |-> {}]
    ELSE LET before == FieldErrors(r, n - 1)
             f == FieldOrder[n]
             values == {g \in DOMAIN before : before[g] = {}}
             own == IF ConstraintErrors(f, r) # {} THEN ConstraintErrors(f, r)
                    ELSE IF f = "high" THEN HighMustBeHighest(r.high, values, r)
                    ELSE IF f = "low" THEN LowMustBeLowest(r.low, values, r)
                    ELSE {}
         IN  [g \in DOMAIN before \cup {f} |-> IF g = f THEN own ELSE before[g]]

\* the messages of the ValidationError of TickerDataCreate(**r); empty when
\* the record is valid
ValidationErrors(r) ==
    LET errs == FieldErrors(r, Len(FieldOrder))
    IN  UNION {errs[f] : f \in DOMAIN errs}

-----------------------------------------------------------------------------
(* Request layer: the handlers' answers *)

NoResponse ==
    [kind |-> "none", status |-> 0, errors |-> {}, request |-> <<>>,
     invoked |-> FALSE, short_window |-> 0, long_window |-> 0, summary |-> NoSummary]

\* the permutations of rows that ORDER BY datetime may return: rows with equal
\* datetime come in any order
OrderedByDatetime(rows) ==
    LET n == Len(rows)
        perms == {f \in [1..n -> 1..n] : \A i, j \in 1..n : i # j => f[i] # f[j]}
    IN  {[i \in 1..n |-> rows[f[i]]] : f \in
            {f \in perms : \A i \in 1..(n - 1) : rows[f[i]].datetime <= rows[f[i + 1]].datetime}}

PerformanceResponse_NoEmptyCheck(rows, sw, lw) ==
    LET base == [NoResponse EXCEPT !.kind = "performance", !.short_window = sw,
                                   !.long_window = lw, !.invoked = TRUE]
        gen == GenerateSignals(sw, lw, rows)
    IN  IF gen.err THEN [base EXCEPT !.status = 500]
        ELSE [base EXCEPT !.status = 200, !.summary = CalculatePerformance(gen.signals)]

\* get_strategy_performance after the query: 404 on no rows, 500 on any
\* exception of the strategy, else the StrategyPerformance
PerformanceResponse(rows, sw, lw) ==
    LET base == [NoResponse EXCEPT !.kind = "performance", !.short_window = sw,
                                   !.long_window = lw]
    IN  IF rows = <<>> THEN [base EXCEPT !.status = 404]
        ELSE LET gen == GenerateSignals(sw, lw, rows)
             IN  IF gen.err THEN [base EXCEPT !.status = 500, !.invoked = TRUE]
                 ELSE [base EXCEPT !.status = 200, !.invoked = TRUE,
                                   !.summary = CalculatePerformance(gen.signals)]

-----------------------------------------------------------------------------
(* Concurrent invocations *)

Invocations == {1, 2}

IdleInvocation ==
    [stage |-> "idle", short_window |-> 0, long_window |-> 0, rows |-> <<>>,
     signals |-> <<>>, idx |-> 0, locals |-> InitialLocals, summary |-> NoSummary]

SharedLocals(all, i) == all[CHOOSE j \in Invocations : TRUE].locals

\* the locals of calculate_performance live in the frame of the call
LocalsOf(all, i) == all[i].locals

-----------------------------------------------------------------------------
(* State machine *)

Locals ==
    [position |-> position, buy_price |-> buy_price, total_returns |-> total_returns,
     trades |-> trades, winning_trades |-> winning_trades,
     portfolio_values |-> portfolio_values]

SetLocals(st) ==
    /\ position' = st.position
    /\ buy_price' = st.buy_price
    /\ total_returns' = st.total_returns
    /\ trades' = st.trades
    /\ winning_trades' = st.winning_trades
    /\ portfolio_values' = st.portfolio_values

NoCallState ==
    /\ pc = "idle"
    /\ call = "none"
    /\ prices = <<>>
    /\ ma_result = MaError
    /\ ticker_data = <<>>
    /\ gen_result = GenError
    /\ signals = <<>>
    /\ idx = 0
    /\ position = InitialLocals.position
    /\ buy_price = InitialLocals.buy_price
    /\ total_returns = InitialLocals.total_returns
    /\ trades = InitialLocals.trades
    /\ winning_trades = InitialLocals.winning_trades
    /\ portfolio_values = InitialLocals.portfolio_values
    /\ summary = NoSummary
    /\ db = <<>>
    /\ response = NoResponse
    /\ invs = [i \in Invocations |-> IdleInvocation]

\* __init__ with any pair of windows
Init ==
    /\ short_window \in WindowRange
    /\ long_window \in WindowRange
    /\ NoCallState

\* __init__ with the default windows
InitDefault ==
    /\ short_window = DefaultShortWindow
    /\ long_window = DefaultLongWindow
    /\ NoCallState

TickerData(closes) == [i \in 1..Len(closes) |-> [datetime |-> i, close |-> closes[i]]]

\* Each behaviour follows one use of a freshly constructed strategy object:
\* the direct calls below are made on the state __init__ left.
CallCalculateMovingAverages ==
    /\ pc = "idle"
    /\ call = "none"
    /\ \E ps \in SeqsUpTo(PriceSet, MaxLen) :
          /\ prices' = ps
          /\ ma_result' = CalculateMovingAverages(short_window, long_window, ps)
    /\ call' = "calculate_moving_averages"
    /\ UNCHANGED <<short_window, long_window, pc, ticker_data, gen_result, signals,
                   idx, summary>>
    /\ UNCHANGED perf_locals
    /\ UNCHANGED <<db, response, invs>>

CallGenerateSignals ==
    /\ pc = "idle"
    /\ call = "none"
    /\ \E closes \in SeqsUpTo(PriceSet, MaxLen) :
          /\ ticker_data' = TickerData(closes)
          /\ gen_result' = GenerateSignals(short_window, long_window, TickerData(closes))
    /\ call' = "generate_signals"
    /\ UNCHANGED <<short_window, long_window, pc, prices, ma_result, signals, idx,
                   summary>>
    /\ UNCHANGED perf_locals
    /\ UNCHANGED <<db, response, invs>>

\* Entry of calculate_performance: the empty list returns at once, any other
\* list initialises the locals and enters the loop
EnterPerformance(sigs) ==
    /\ call' = "calculate_performance"
    /\ signals' = sigs
    /\ idx' = 0
    /\ SetLocals(InitialLocals)
    /\ IF sigs = <<>>
       THEN pc' = "idle" /\ summary' = EmptySummary
       ELSE pc' = "loop" /\ summary' = NoSummary

\* calculate_performance on the signals generate_signals returned
CallPerformanceOnGenerated ==
    /\ pc = "idle"
    /\ call = "generate_signals"
    /\ ~gen_result.err
    /\ EnterPerformance(gen_result.signals)
    /\ UNCHANGED <<short_window, long_window, prices, ma_result, ticker_data, gen_result>>
    /\ UNCHANGED <<db, response, invs>>

DirectSignals(pts) ==
    [i \in 1..Len(pts) |-> MakeSignal(i, RInt(pts[i][1]), NaN, NaN, pts[i][2])]

\* calculate_performance on any signal list
CallCalculatePerformance ==
    /\ pc = "idle"
    /\ call = "none"
    /\ \E pts \in SeqsUpTo(PriceSet \X Tags, MaxSignals) : EnterPerformance(DirectSignals(pts))
    /\ UNCHANGED <<short_window, long_window, prices, ma_result, ticker_data, gen_result>>
    /\ UNCHANGED <<db, response, invs>>

LoopStep ==
    /\ pc = "loop"
    /\ idx < Len(signals)
    /\ idx' = idx + 1
    /\ SetLocals(LoopBody(Locals, signals[idx + 1]))
    /\ UNCHANGED <<short_window, long_window, pc, call, prices, ma_result, ticker_data,
                   gen_result, signals, summary>>
    /\ UNCHANGED <<db, response, invs>>

PerfBuy ==
    /\ pc = "loop" /\ idx < Len(signals)
    /\ BuyAccepted(signals[idx + 1], position)
    /\ LoopStep

\* float division raises ZeroDivisionError on a zero divisor
PerfSell ==
    /\ pc = "loop" /\ idx < Len(signals)
    /\ SellAccepted(signals[idx + 1], position)
    /\ buy_price.num # 0
    /\ LoopStep

\* return_pct with a zero entry price: the exception leaves the method
PerfSellRaises ==
    /\ pc = "loop" /\ idx < Len(signals)
    /\ SellAccepted(signals[idx + 1], position)
    /\ buy_price.num = 0
    /\ pc' = "raised_loop"
    /\ UNCHANGED <<short_window, long_window, call, prices, ma_result, ticker_data,
                   gen_result, signals, idx, summary>>
    /\ UNCHANGED perf_locals
    /\ UNCHANGED <<db, response, invs>>

PerfSkip ==
    /\ pc = "loop" /\ idx < Len(signals)
    /\ ~BuyAccepted(signals[idx + 1], position)
    /\ ~SellAccepted(signals[idx + 1], position)
    /\ LoopStep

\* The divisors of the metrics: the running peak of the drawdown loop, which
\* starts at the seed and never decreases, and the previous portfolio value of
\* each step return
MetricDivisorsNonZero(pv) ==
    /\ pv[1].num # 0
    /\ \A i \in 1..(Len(pv) - 1) : pv[i].num # 0

PerfFinish ==
    /\ pc = "loop"
    /\ idx = Len(signals)
    /\ MetricDivisorsNonZero(portfolio_values)
    /\ summary' = Summarise(Locals, signals)
    /\ pc' = "idle"
    /\ UNCHANGED <<short_window, long_window, call, prices, ma_result, ticker_data,
                   gen_result, signals, idx>>
    /\ UNCHANGED perf_locals
    /\ UNCHANGED <<db, response, invs>>

\* a step return over a zero portfolio value: the exception leaves the method
PerfFinishRaises ==
    /\ pc = "loop"
    /\ idx = Len(signals)
    /\ ~MetricDivisorsNonZero(portfolio_values)
    /\ pc' = "raised_metrics"
    /\ UNCHANGED <<short_window, long_window, call, prices, ma_result, ticker_data,
                   gen_result, signals, idx, summary>>
    /\ UNCHANGED perf_locals
    /\ UNCHANGED <<db, response, invs>>

Next ==
    \/ CallCalculateMovingAverages
    \/ CallGenerateSignals
    \/ CallPerformanceOnGenerated
    \/ PerfBuy
    \/ PerfSell
    \/ PerfSkip
    \/ PerfFinish

Spec == Init /\ [][Next]_vars

NextPerf ==
    \/ CallCalculatePerformance
    \/ PerfBuy
    \/ PerfSell
    \/ PerfSkip
    \/ PerfFinish

SpecPerf == InitDefault /\ [][NextPerf]_vars

\* MovingAverageSignal.price is an unconstrained float: signal lists with a
\* zero price
ZeroPriceSet == {0, 100, 110}

CallCalculatePerformanceAnyPrice ==
    /\ pc = "idle"
    /\ call = "none"
    /\ \E pts \in SeqsUpTo(ZeroPriceSet \X Tags, MaxSignals) :
          EnterPerformance(DirectSignals(pts))
    /\ UNCHANGED <<short_window, long_window, prices, ma_result, ticker_data, gen_result>>
    /\ UNCHANGED <<db, response, invs>>

NextPerfZero ==
    \/ CallCalculatePerformanceAnyPrice
    \/ PerfBuy
    \/ PerfSell
    \/ PerfSellRaises
    \/ PerfSkip
    \/ PerfFinish
    \/ PerfFinishRaises

SpecPerfZero == InitDefault /\ [][NextPerfZero]_vars

-----------------------------------------------------------------------------
(* Request layer: the requests *)

MaxStore == 2        \* most rows the table holds

ApiDates == {1, 2}

\* the bodies of POST /data: every pair of prices is out of order in some body
CreateRequests ==
    [datetime : ApiDates, open : {0, 100}, high : {90, 110}, low : {90, 110},
     close : {100, 120}, volume : {0}]

\* the records of a bulk request
BulkRecords ==
    [datetime : ApiDates, open : {100}, high : {90, 110}, low : {90},
     close : {100}, volume : {0}]

BulkRequests == UNION {[1..k -> BulkRecords] : k \in 1..MaxStore}

\* The body is validated before the handler runs: an invalid record of the
\* body answers 422 and the handler, so the table, is not touched.  Otherwise
\* the records are inserted and committed.
Insert(kind, reqs) ==
    LET errors == UNION {ValidationErrors(reqs[i]) : i \in 1..Len(reqs)}
        base == [NoResponse EXCEPT !.kind = kind,
                                   !.request = IF kind = "create" THEN reqs ELSE <<>>]
    IN  IF errors # {}
        THEN /\ response' = [base EXCEPT !.status = 422, !.errors = errors]
             /\ db' = db
        ELSE /\ response' = [base EXCEPT !.status = 200]
             /\ db' = db \o reqs

\* POST /data
CreateData ==
    /\ Len(db) < MaxStore
    /\ \E r \in CreateRequests : Insert("create", <<r>>)
    /\ UNCHANGED core_vars
    /\ UNCHANGED invs

\* POST /data/bulk
CreateBulkData ==
    /\ \E reqs \in BulkRequests :
          /\ Len(db) + Len(reqs) <= MaxStore
          /\ Insert("bulk", reqs)
    /\ UNCHANGED core_vars
    /\ UNCHANGED invs

\* DELETE /data/all
DeleteAllData ==
    /\ db' = <<>>
    /\ response' = [NoResponse EXCEPT !.kind = "delete", !.status = 200]
    /\ UNCHANGED core_vars
    /\ UNCHANGED invs

\* GET /strategy/performance?short_window=sw&long_window=lw
GetStrategyPerformance ==
    /\ \E sw \in WindowRange, lw \in WindowRange :
          \E rows \in OrderedByDatetime(db) :
              response' = PerformanceResponse(rows, sw, lw)
    /\ UNCHANGED db
    /\ UNCHANGED core_vars
    /\ UNCHANGED invs

NextApi ==
    \/ CreateData
    \/ CreateBulkData
    \/ DeleteAllData
    \/ GetStrategyPerformance

SpecApi == InitDefault /\ [][NextApi]_vars

-----------------------------------------------------------------------------
(* Concurrent invocations: the steps of generate_signals followed by
   calculate_performance, one thread of control per invocation *)

ConcLen == 4        \* rows of an invocation's snapshot

ConcWindows == {<<1, 2>>, <<2, 3>>, <<-1, 2>>}

ConcCloses == {90, 110}

\* the caller builds its own strategy object and passes its own rows
Begin(i) ==
    /\ invs[i].stage \in {"idle", "done", "raised"}
    /\ \E w \in ConcWindows, closes \in [1..ConcLen -> ConcCloses] :
          invs' = [invs EXCEPT ![i] =
                      [IdleInvocation EXCEPT !.stage = "started",
                                             !.short_window = w[1],
                                             !.long_window = w[2],
                                             !.rows = TickerData(closes)]]
    /\ UNCHANGED core_vars
    /\ UNCHANGED api_vars

\* strategy.generate_signals(ticker_data)
Generate(i) ==
    /\ invs[i].stage = "started"
    /\ LET gen == GenerateSignals(invs[i].short_window, invs[i].long_window, invs[i].rows)
       IN  invs' = [invs EXCEPT ![i] =
                       IF gen.err THEN [@ EXCEPT !.stage = "raised"]
                       ELSE [@ EXCEPT !.stage = "generated", !.signals = gen.signals]]
    /\ UNCHANGED core_vars
    /\ UNCHANGED api_vars

\* calculate_performance up to the for loop
EnterPerf(i) ==
    /\ invs[i].stage = "generated"
    /\ invs' = [invs EXCEPT ![i] =
                   IF @.signals = <<>>
                   THEN [@ EXCEPT !.stage = "done", !.summary = EmptySummary]
                   ELSE [@ EXCEPT !.stage = "loop", !.idx = 0, !.locals = InitialLocals]]
    /\ UNCHANGED core_vars
    /\ UNCHANGED api_vars

\* one iteration of the for loop
LoopIter(i) ==
    /\ invs[i].stage = "loop"
    /\ invs[i].idx < Len(invs[i].signals)
    /\ invs' = [invs EXCEPT ![i] =
                   [@ EXCEPT !.idx = @ + 1,
                             !.locals = LoopBody(LocalsOf(invs, i),
                                                 invs[i].signals[invs[i].idx + 1])]]
    /\ UNCHANGED core_vars
    /\ UNCHANGED api_vars

\* the metrics and the return
Finish(i) ==
    /\ invs[i].stage = "loop"
    /\ invs[i].idx = Len(invs[i].signals)
    /\ invs' = [invs EXCEPT ![i] =
                   [@ EXCEPT !.stage = "done",
                             !.summary = Summarise(LocalsOf(invs, i), invs[i].signals)]]
    /\ UNCHANGED core_vars
    /\ UNCHANGED api_vars

NextConc ==
    \E i \in Invocations :
        \/ Begin(i)
        \/ Generate(i)
        \/ EnterPerf(i)
        \/ LoopIter(i)
        \/ Finish(i)

SpecConc == InitDefault /\ [][NextConc]_vars

-----------------------------------------------------------------------------
(* Properties of calculate_moving_averages *)

RECURSIVE WindowSum(_, _, _)
WindowSum(ps, lo, hi) == IF lo > hi THEN 0 ELSE ps[hi] + WindowSum(ps, lo, hi - 1)

\* out is the trailing mean of ps over window w >= 1: as long as ps, undefined
\* before the window fills, the mean of the last w prices afterwards
IsTrailingMean(ps, w, out) ==
    /\ Len(out) = Len(ps)
    /\ \A i \in 1..Len(ps) :
          IF i < w THEN ~out[i].def
          ELSE out[i].def /\ out[i].num * w = WindowSum(ps, i - w + 1, i) * out[i].den

\* C1: for every price sequence of length N (N = 0 and N < window included) and
\* every window >= 1, calculate_moving_averages returns for that window N
\* entries, entry i undefined for i < window - 1 and the arithmetic mean of
\* prices[i - window + 1 .. i] for i >= window - 1.
C1_TrailingMeanContract ==
    call = "calculate_moving_averages" =>
        /\ (short_window >= 1 /\ long_window >= 1 => ~ma_result.err)
        /\ (~ma_result.err /\ short_window >= 1 =>
                IsTrailingMean(prices, short_window, ma_result.short))
        /\ (~ma_result.err /\ long_window >= 1 =>
                IsTrailingMean(prices, long_window, ma_result.long))

C1_Witness ==
    /\ call = "calculate_moving_averages"
    /\ short_window = 2
    /\ long_window = 3
    /\ prices = <<100, 110, 90, 90>>
    /\ ~ma_result.err
    /\ ma_result.short[4] = RInt(90)
    /\ ma_result.long[3] = RInt(100)

\* C2: calling calculate_moving_averages with a short or long window <= 0 fails
\* with an error and returns no result sequence.
C2_NonPositiveWindowFails ==
    (call = "calculate_moving_averages" /\ (short_window <= 0 \/ long_window <= 0))
        => ma_result.err

-----------------------------------------------------------------------------
(* Properties of generate_signals *)

\* C3: with len(points) < long_window, for any short_window, generate_signals
\* returns the empty sequence, not an error and not a list of HOLD signals.
C3_InsufficientHistoryIsEmpty ==
    (call = "generate_signals" /\ Len(ticker_data) < long_window)
        => gen_result = GenOk(<<>>)

C3_Witness ==
    /\ call = "generate_signals"
    /\ Len(ticker_data) = 2
    /\ long_window = 3
    /\ short_window = 1
    /\ gen_result.signals = <<>>

\* v is the trailing mean of ps over window w at index i, undefined exactly when
\* i < w
IsMeanAt(ps, w, i, v) ==
    /\ v.def <=> i >= w
    /\ v.def => v.num * w = WindowSum(ps, i - w + 1, i) * v.den

\* C4: with windows >= 1 and len(points) >= long_window, generate_signals returns
\* len(points) signals in input order; signal i carries the timestamp and close
\* of points[i], a short average undefined exactly when i < short_window - 1 and
\* a long average undefined exactly when i < long_window - 1, each otherwise the
\* rolling mean at i.
C4_OneSignalPerPoint ==
    (/\ call = "generate_signals"
     /\ short_window >= 1
     /\ long_window >= 1
     /\ Len(ticker_data) >= long_window)
        => /\ ~gen_result.err
           /\ Len(gen_result.signals) = Len(ticker_data)
           /\ \A i \in 1..Len(ticker_data) :
                 LET sig == gen_result.signals[i]
                 IN  /\ sig.datetime = ticker_data[i].datetime
                     /\ sig.price.def
                     /\ sig.price.num = ticker_data[i].close * sig.price.den
                     /\ IsMeanAt(Closes(ticker_data), short_window, i, sig.short_ma)
                     /\ IsMeanAt(Closes(ticker_data), long_window, i, sig.long_ma)

C4_Witness ==
    /\ call = "generate_signals"
    /\ short_window = 2
    /\ long_window = 3
    /\ Closes(ticker_data) = <<100, 110, 90, 90>>
    /\ Len(gen_result.signals) = 4
    /\ ~gen_result.signals[1].short_ma.def
    /\ gen_result.signals[2].short_ma = RInt(105)
    /\ ~gen_result.signals[2].long_ma.def
    /\ gen_result.signals[3].long_ma = RInt(100)

AveragesDefined(sigs, i) == sigs[i].short_ma.def /\ sigs[i].long_ma.def

\* short average minus long average of signal i, times the two denominators
Spread(sigs, i) ==
    sigs[i].short_ma.num * sigs[i].long_ma.den
        - sigs[i].long_ma.num * sigs[i].short_ma.den

UpCross(sigs, i) ==
    /\ i > 1
    /\ AveragesDefined(sigs, i)
    /\ AveragesDefined(sigs, i - 1)
    /\ Spread(sigs, i) > 0
    /\ Spread(sigs, i - 1) <= 0

DownCross(sigs, i) ==
    /\ i > 1
    /\ AveragesDefined(sigs, i)
    /\ AveragesDefined(sigs, i - 1)
    /\ Spread(sigs, i) < 0
    /\ Spread(sigs, i - 1) >= 0

\* C5: the tag at index i is BUY iff i > 0, the short and long averages at i and
\* at i-1 are all defined, short[i] > long[i] and short[i-1] <= long[i-1]; SELL
\* iff the same definedness holds, short[i] < long[i] and short[i-1] >=
\* long[i-1]; HOLD in every other case.
C5_TagIsCrossover ==
    (call = "generate_signals" /\ ~gen_result.err) =>
        \A i \in 1..Len(gen_result.signals) :
            LET sigs == gen_result.signals
            IN  /\ sigs[i].signal = "BUY" <=> UpCross(sigs, i)
                /\ sigs[i].signal = "SELL" <=> DownCross(sigs, i)
                /\ sigs[i].signal = "HOLD" <=> ~UpCross(sigs, i) /\ ~DownCross(sigs, i)

\* a BUY, a SELL, and a HOLD at the first point with both averages defined
\* although the short average is already above the long one there
C5_Witness ==
    /\ call = "generate_signals"
    /\ short_window = 1
    /\ long_window = 2
    /\ Closes(ticker_data) = <<100, 110, 90, 110>>
    /\ gen_result.signals[2].signal = "HOLD"
    /\ Spread(gen_result.signals, 2) > 0
    /\ gen_result.signals[3].signal = "SELL"
    /\ gen_result.signals[4].signal = "BUY"

NonDecreasing(ps) == \A i \in 2..Len(ps) : ps[i - 1] <= ps[i]
NonIncreasing(ps) == \A i \in 2..Len(ps) : ps[i - 1] >= ps[i]
NotConstant(ps) == \E i \in 2..Len(ps) : ps[i - 1] # ps[i]
HasTag(sigs, tag) == \E i \in 1..Len(sigs) : sigs[i].signal = tag

\* the w closes before index i are all equal
FlatBefore(ps, w, i) == i > w /\ \A k \in (i - w)..(i - 1) : ps[k] = ps[i - 1]

\* C6 as stated: every non-decreasing close series with at least one increase,
\* of length >= long_window, gives at least one BUY for every (positive)
\* short_window < long_window; every such decreasing series at least one SELL.
C6_MonotoneSeriesSignals ==
    (/\ call = "generate_signals"
     /\ 1 <= short_window
     /\ short_window < long_window
     /\ Len(ticker_data) >= long_window)
        => LET ps == Closes(ticker_data)
           IN  /\ (NonDecreasing(ps) /\ NotConstant(ps)) => HasTag(gen_result.signals, "BUY")
               /\ (NonIncreasing(ps) /\ NotConstant(ps)) => HasTag(gen_result.signals, "SELL")

\* C6 amended: for 1 <= short_window < long_window <= len(points), a
\* non-decreasing series is tagged BUY exactly at the points whose close is
\* higher than the long_window equal closes before it, and is never tagged SELL;
\* so it has a BUY when it starts with long_window equal closes and rises later.
\* Symmetrically for non-increasing series and SELL.
C6_MonotoneSignalsNeedFlatRun ==
    (/\ call = "generate_signals"
     /\ 1 <= short_window
     /\ short_window < long_window
     /\ Len(ticker_data) >= long_window)
        => LET ps == Closes(ticker_data)
               sigs == gen_result.signals
           IN  /\ ~gen_result.err
               /\ NonDecreasing(ps) =>
                    /\ \A i \in 1..Len(ps) :
                          sigs[i].signal = "BUY" <=>
                              FlatBefore(ps, long_window, i) /\ ps[i] > ps[i - 1]
                    /\ ~HasTag(sigs, "SELL")
                    /\ (FlatBefore(ps, long_window, long_window + 1) /\ NotConstant(ps))
                          => HasTag(sigs, "BUY")
               /\ NonIncreasing(ps) =>
                    /\ \A i \in 1..Len(ps) :
                          sigs[i].signal = "SELL" <=>
                              FlatBefore(ps, long_window, i) /\ ps[i] < ps[i - 1]
                    /\ ~HasTag(sigs, "BUY")
                    /\ (FlatBefore(ps, long_window, long_window + 1) /\ NotConstant(ps))
                          => HasTag(sigs, "SELL")

C6_Witness ==
    /\ call = "generate_signals"
    /\ short_window = 2
    /\ long_window = 3
    /\ Closes(ticker_data) = <<90, 90, 90, 100, 110>>
    /\ gen_result.signals[4].signal = "BUY"
    /\ gen_result.signals[5].signal = "HOLD"

-----------------------------------------------------------------------------
(* Properties of calculate_performance *)

Returned == call = "calculate_performance" /\ pc = "idle" /\ summary.done

\* C7: calculate_performance on the empty signal sequence returns
\* total_returns = 0, total_trades = 0, win_rate = 0, max_drawdown = 0,
\* sharpe_ratio = 0 and an empty signal list.
C7_EmptyInputAllZero ==
    (call = "calculate_performance" /\ signals = <<>>) =>
        /\ pc = "idle"
        /\ summary.done
        /\ summary.total_returns.def /\ summary.total_returns.num = 0
        /\ summary.total_trades = 0
        /\ summary.win_rate.def /\ summary.win_rate.num = 0
        /\ summary.max_drawdown.def /\ summary.max_drawdown.num = 0
        /\ summary.sharpe_ratio.avg.def /\ summary.sharpe_ratio.avg.num = 0
        /\ summary.signals = <<>>

C7_Witness == Returned /\ signals = <<>> /\ summary.signals = <<>>

\* C8: at every step of the pass the account is FLAT or LONG with exactly one
\* open position, starting FLAT; a BUY is acted on only when FLAT and a SELL
\* only when LONG.
C8_Step ==
    /\ position' \in {0, 1}
    /\ (call' = "calculate_performance" /\ idx' = 0) => position' = 0
    /\ (pc = "loop" /\ idx' = idx + 1) =>
          /\ (trades' # trades \/ buy_price' # buy_price \/ position' > position)
                => /\ signals[idx'].signal = "BUY"
                   /\ position = 0
                   /\ position' = 1
          /\ (\/ portfolio_values' # portfolio_values
              \/ total_returns' # total_returns
              \/ winning_trades' # winning_trades
              \/ position' < position)
                => /\ signals[idx'].signal = "SELL"
                   /\ position = 1
                   /\ position' = 0
          \* entries made minus exits made is the number of open positions
          /\ trades' - (Len(portfolio_values') - 1) = position'

\* C8 as a property of every step: C8_Step holds of each transition.
C8_SinglePosition == [][C8_Step]_vars

\* a BUY was ignored while LONG and a SELL while FLAT
C8_Witness ==
    /\ pc = "loop"
    /\ idx = 3
    /\ signals[1].signal = "SELL"
    /\ signals[2].signal = "BUY"
    /\ signals[3].signal = "BUY"
    /\ position = 1
    /\ trades = 1
    /\ buy_price = signals[2].price

IsTag(sigs, i, tag) == sigs[i].signal = tag

\* (b, s) is a completed trade of sigs: b is the first BUY after the SELL before
\* it (or after the start) and s is the first SELL after b
IsTrade(sigs, b, s) ==
    /\ b < s
    /\ IsTag(sigs, b, "BUY")
    /\ IsTag(sigs, s, "SELL")
    /\ \A k \in (b + 1)..(s - 1) : ~IsTag(sigs, k, "SELL")
    /\ \A k \in 1..(b - 1) :
          IsTag(sigs, k, "BUY") => \E m \in (k + 1)..(b - 1) : IsTag(sigs, m, "SELL")

CompletedTrades(sigs) ==
    {t \in (1..Len(sigs)) \X (1..Len(sigs)) : IsTrade(sigs, t[1], t[2])}

\* (x - e) / e of a trade, from the integer prices
TradeReturn(sigs, t) ==
    LET e == sigs[t[1]].price.num
        x == sigs[t[2]].price.num
    IN  Rat(x - e, e)

IsWin(sigs, t) == sigs[t[2]].price.num > sigs[t[1]].price.num

RECURSIVE SumOfReturns(_, _)
SumOfReturns(sigs, T) ==
    IF T = {} THEN RZero
    ELSE LET t == CHOOSE t \in T : TRUE
         IN  RAdd(TradeReturn(sigs, t), SumOfReturns(sigs, T \ {t}))

\* index of the BUY that opened the position a LONG pass ends with: the first
\* BUY after the last SELL
OpenBuyIndex(sigs) ==
    CHOOSE b \in 1..Len(sigs) :
        /\ IsTag(sigs, b, "BUY")
        /\ \A k \in 1..Len(sigs) : IsTag(sigs, k, "SELL") => k < b
        /\ \A k \in 1..(b - 1) :
              IsTag(sigs, k, "BUY") => \E m \in (k + 1)..(b - 1) : IsTag(sigs, m, "SELL")

WithoutOpenBuy(sigs) == [sigs EXCEPT ![OpenBuyIndex(sigs)].signal = "HOLD"]

\* C9: when the pass ends LONG, total_trades, win_rate and total_returns are
\* those of the sequence with the unmatched BUY replaced by HOLD, and
\* total_trades is the number of completed BUY->SELL trades.
C9_OpenPositionNotCounted ==
    (Returned /\ signals # <<>> /\ position = 1) =>
        LET closed == CalculatePerformance(WithoutOpenBuy(signals))
        IN  /\ summary.total_trades = closed.total_trades
            /\ summary.win_rate = closed.win_rate
            /\ summary.total_returns = closed.total_returns
            /\ summary.total_trades = Cardinality(CompletedTrades(signals))

\* C10: each completed trade (entry e, exit x) adds (x - e) / e to the
\* accumulated return and is a win iff x > e; total_returns is 100 times the
\* plain sum of these fractions.
C10_ReturnsAreSummed ==
    (Returned /\ signals # <<>>) =>
        LET T == CompletedTrades(signals)
        IN  /\ total_returns = SumOfReturns(signals, T)
            /\ summary.total_returns.def
            /\ summary.total_returns.num * total_returns.den
                  = 100 * total_returns.num * summary.total_returns.den
            /\ winning_trades = Cardinality({t \in T : IsWin(signals, t)})
            /\ Len(portfolio_values) = 1 + Cardinality(T)

\* entry 100 and exit 110, then a second, losing trade: 0.10 - 2/11
C10_Witness ==
    /\ Returned
    /\ Len(signals) = 4
    /\ CompletedTrades(signals) = {<<1, 2>>, <<3, 4>>}
    /\ signals[1].price = RInt(100) /\ signals[2].price = RInt(110)
    /\ signals[3].price = RInt(110) /\ signals[4].price = RInt(90)
    /\ total_returns = RAdd(Rat(1, 10), Rat(-2, 11))
    /\ winning_trades = 1
    /\ summary.total_returns = Rat(-90, 11)

\* C11: with positive prices the summary has 0 <= win_rate <= 100 and
\* max_drawdown >= 0.
C11_MetricRanges ==
    (Returned /\ signals # <<>>) =>
        /\ summary.win_rate.def
        /\ summary.win_rate.num >= 0
        /\ summary.win_rate.num <= 100 * summary.win_rate.den
        /\ summary.max_drawdown.def
        /\ summary.max_drawdown.num >= 0

\* one win and one loss out of two completed trades, with a drawdown
C11_Witness ==
    /\ Returned
    /\ Len(signals) = 4
    /\ trades = 2
    /\ winning_trades = 1
    /\ summary.win_rate = RInt(50)
    /\ summary.max_drawdown.num > 0

-----------------------------------------------------------------------------
(* Properties of generate_signals, continued *)

Max(a, b) == IF a >= b THEN a ELSE b

\* C18: every signal at an index i <= max(short_window, long_window) - 1 is
\* HOLD, whatever the averages are there; the earliest BUY or SELL is at index
\* max(short_window, long_window).  (Index i of the source is i + 1 here.)
C18_NoSignalBeforeBothAveragesHavePredecessors ==
    (call = "generate_signals" /\ ~gen_result.err) =>
        \A i \in 1..Len(gen_result.signals) :
            i <= Max(short_window, long_window) => gen_result.signals[i].signal = "HOLD"

\* the averages already differ at the first point where both exist, which is
\* HOLD, and the next point is a BUY
C18_Witness ==
    /\ call = "generate_signals"
    /\ short_window = 1
    /\ long_window = 2
    /\ Closes(ticker_data) = <<100, 90, 110>>
    /\ Spread(gen_result.signals, 2) < 0
    /\ gen_result.signals[2].signal = "HOLD"
    /\ gen_result.signals[3].signal = "BUY"

-----------------------------------------------------------------------------
(* Properties of the loop of calculate_performance *)

InPass == call = "calculate_performance" /\ signals # <<>> /\ pc \in {"loop", "idle"}

Consumed == SubSeq(signals, 1, idx)

Ignored(sig, pos) ==
    \/ sig.signal = "HOLD"
    \/ sig.signal = "BUY" /\ pos = 1
    \/ sig.signal = "SELL" /\ pos = 0

\* C14: a HOLD in any state, a BUY while LONG and a SELL while FLAT leave
\* position, entry price, trade counter, winning-trade counter, accumulated
\* return and the portfolio trajectory unchanged.
C14_Step ==
    (pc = "loop" /\ idx' = idx + 1 /\ Ignored(signals[idx'], position))
        => UNCHANGED perf_locals

\* C14 as a property of every step: C14_Step holds of each transition.
C14_IgnoredSignalsChangeNothing == [][C14_Step]_vars

\* a BUY at another price was ignored while LONG, then a HOLD
C14_Witness ==
    /\ pc = "loop"
    /\ idx = 3
    /\ signals[1].signal = "BUY" /\ signals[1].price = RInt(100)
    /\ signals[2].signal = "BUY" /\ signals[2].price = RInt(110)
    /\ signals[3].signal = "HOLD"
    /\ position = 1
    /\ buy_price = RInt(100)
    /\ trades = 1

\* exit index of the trade that completes last
LastTrade(T) == CHOOSE t \in T : \A u \in T : u[2] <= t[2]

\* 10000 times the product of exit / entry over the trades, one entry per trade
RECURSIVE Trajectory(_, _)
Trajectory(sigs, T) ==
    IF T = {} THEN <<RInt(InitialPortfolio)>>
    ELSE LET t == LastTrade(T)
             before == Trajectory(sigs, T \ {t})
         IN  Append(before,
                    RMul(Last(before), Rat(sigs[t[2]].price.num, sigs[t[1]].price.num)))

RMaxOf(S) == CHOOSE v \in S : \A u \in S : RGe(v, u)

PeakAt(pv, i) == RMaxOf({pv[j] : j \in 1..i})

DrawdownAt(pv, i) == RSub(ROne, RDiv(pv[i], PeakAt(pv, i)))

HasLosingTrade(sigs) ==
    \E t \in CompletedTrades(sigs) : sigs[t[2]].price.num < sigs[t[1]].price.num

\* C15: the trajectory starts at 10000 and gains previous * (1 + return_pct) per
\* completed trade; max_drawdown is 100 times the maximum of (running peak -
\* value) / running peak; it is 0 exactly when no completed trade has a negative
\* return and positive otherwise.
C15_TrajectoryAndDrawdown ==
    InPass =>
        /\ portfolio_values = Trajectory(Consumed, CompletedTrades(Consumed))
        /\ Returned =>
              /\ summary.max_drawdown =
                    RMul(RMaxOf({DrawdownAt(portfolio_values, i) :
                                    i \in 1..Len(portfolio_values)}), RInt(100))
              /\ summary.max_drawdown.num = 0 <=> ~HasLosingTrade(signals)
              /\ summary.max_drawdown.num > 0 <=> HasLosingTrade(signals)

\* a win then a loss: 10000, 11000, 9000 and a drawdown of 2/11
C15_Witness ==
    /\ Returned
    /\ Len(signals) = 4
    /\ portfolio_values = <<RInt(10000), RInt(11000), RInt(9000)>>
    /\ summary.max_drawdown = Rat(200, 11)

\* C19: after every step, trade counter = SELLs acted on + (1 if LONG else 0),
\* trajectory length = 1 + SELLs acted on, and winning-trade counter <= SELLs
\* acted on <= trade counter.
C19_CounterRelations ==
    InPass =>
        LET sells == Cardinality(CompletedTrades(Consumed))
        IN  /\ trades = sells + position
            /\ Len(portfolio_values) = 1 + sells
            /\ winning_trades <= sells
            /\ sells <= trades

C19_Witness ==
    /\ pc = "loop"
    /\ idx = 3
    /\ signals[1].signal = "BUY" /\ signals[2].signal = "SELL"
    /\ signals[3].signal = "BUY"
    /\ position = 1
    /\ trades = 2
    /\ Len(portfolio_values) = 2

NonHold(sigs) == {k \in 1..Len(sigs) : ~IsTag(sigs, k, "HOLD")}

LastNonHoldIs(sigs, tag) ==
    \E k \in NonHold(sigs) : IsTag(sigs, k, tag) /\ \A m \in NonHold(sigs) : m <= k

\* C20: after any prefix, position is LONG iff the most recent non-HOLD signal
\* of the prefix is BUY (FLAT if it is SELL or there is none); while LONG the
\* entry price is the price of the first BUY after the last SELL.
C20_PositionFollowsLastSignal ==
    InPass =>
        /\ position = 1 <=> LastNonHoldIs(Consumed, "BUY")
        /\ position = 0 <=> (LastNonHoldIs(Consumed, "SELL") \/ NonHold(Consumed) = {})
        /\ position = 1 => buy_price = Consumed[OpenBuyIndex(Consumed)].price

\* a SELL ignored while FLAT, a BUY accepted, a later BUY ignored
C20_Witness ==
    /\ pc = "loop"
    /\ idx = 4
    /\ signals[1].signal = "SELL"
    /\ signals[2].signal = "BUY" /\ signals[2].price = RInt(100)
    /\ signals[3].signal = "BUY" /\ signals[3].price = RInt(110)
    /\ signals[4].signal = "HOLD"
    /\ position = 1
    /\ buy_price = RInt(100)

-----------------------------------------------------------------------------
(* Zero divisors in calculate_performance *)

SharpeIsZero == summary.sharpe_ratio.avg.num = 0

\* the step returns of the trajectory are all equal
EqualStepReturns(pv) ==
    \A i, j \in 1..(Len(pv) - 1) : RDiv(pv[i + 1], pv[i]) = RDiv(pv[j + 1], pv[j])

\* the fallbacks the code does have, whenever the method returns
C16_FallbacksWhenReturned ==
    (Returned /\ signals # <<>>) =>
        /\ trades = 0 => summary.win_rate.num = 0
        /\ Len(portfolio_values) < 2 => SharpeIsZero
        /\ EqualStepReturns(portfolio_values) => SharpeIsZero

\* C16: the metrics never fail on a zero denominator: win_rate is 0 when
\* total_trades is 0, sharpe_ratio is 0 when the trajectory has fewer than 2
\* entries or the step returns have zero deviation, and the drawdown never
\* raises on its peak.
C16_MetricsNeverDivideByZero ==
    /\ pc # "raised_metrics"
    /\ C16_FallbacksWhenReturned

-----------------------------------------------------------------------------
(* Properties of the requests *)

AllZero(sm) ==
    /\ sm.done
    /\ sm.total_returns.num = 0
    /\ sm.total_trades = 0
    /\ sm.win_rate.num = 0
    /\ sm.max_drawdown.num = 0
    /\ sm.sharpe_ratio = ZeroSharpe

\* C12: a strategy-performance request answers not-found exactly when the
\* store is empty at that moment, and then the strategy core is not invoked;
\* with a non-empty store of fewer than long_window records it succeeds with
\* the all-zero summary and an empty signal list.
C12_NotFoundIffStoreEmpty ==
    response.kind = "performance" =>
        /\ response.status = 404 <=> db = <<>>
        /\ response.status = 404 => ~response.invoked
        /\ (db # <<>> /\ Len(db) < response.long_window) =>
              /\ response.status = 200
              /\ response.invoked
              /\ AllZero(response.summary)
              /\ response.summary.signals = <<>>

C12_Witness ==
    /\ response.kind = "performance"
    /\ db # <<>>
    /\ Len(db) < response.long_window
    /\ response.status = 200
    /\ AllZero(response.summary)

Min2(a, b) == IF a <= b THEN a ELSE b

Max2(a, b) == IF a >= b THEN a ELSE b

PricesOrdered(r) ==
    /\ r.low <= Min2(r.open, r.close)
    /\ r.high >= Max2(Max2(r.open, r.close), r.low)

\* C13: a create request with high < low, high < open, high < close,
\* low > open or low > close is rejected, so every stored record has
\* low <= min(open, close) and high >= max(open, close, low).
C13_AcceptedRecordsAreOrdered ==
    /\ \A i \in 1..Len(db) : PricesOrdered(db[i])
    /\ response.kind = "create" =>
          (~PricesOrdered(response.request[1]) => response.status = 422)

\* what the validators do enforce: high >= open and low <= open
C13_OrderedAroundOpen ==
    \A i \in 1..Len(db) : db[i].low <= db[i].open /\ db[i].open <= db[i].high

\* a rejected request leaves the store unchanged
C13_RejectedStep ==
    (response'.status = 422) => (db' = db)

C13_RejectedLeavesStore == [][C13_RejectedStep]_vars

-----------------------------------------------------------------------------
(* Properties of concurrent invocations *)

\* what the invocation returns when it runs alone
AloneSummary(inv) ==
    CalculatePerformance(GenerateSignals(inv.short_window, inv.long_window, inv.rows).signals)

\* C17: with the steps of the invocations interleaved in any order, every
\* invocation returns the summary it returns when it runs alone, and while it
\* runs its locals are those of its own signals.
C17_InterleavingIndependent ==
    \A i \in Invocations :
        /\ invs[i].stage = "done" => invs[i].summary = AloneSummary(invs[i])
        /\ invs[i].stage = "loop" =>
              invs[i].locals = Fold(InitialLocals, SubSeq(invs[i].signals, 1, invs[i].idx))

C17_Witness ==
    \E i, j \in Invocations :
        /\ i # j
        /\ invs[i].stage = "done"
        /\ invs[i].summary.total_trades > 0
        /\ invs[j].stage = "loop"
        /\ invs[j].idx > 0
        /\ invs[j].locals.position = 1
        /\ invs[j].rows # invs[i].rows
        /\ invs[j].long_window # invs[i].long_window

====
